---- MODULE Spec2Model ----
(***************************************************************************)
(* VynceAI backend: the prompt-composition and model-invocation pipeline.  *)
(*   server/app/services/llm_client.py   LLMClient (Model Client)          *)
(*   server/app/services/ai_service.py   process_ai_query[_advanced]       *)
(*   server/app/api/v1/routes_ai.py      /chat /query /summarize /analyze  *)
(*                                                                         *)
(* Representation.  A Python str is a sequence of atoms; an atom is one    *)
(* character or one chunk of text.  The texts that can reach a response    *)
(* are cut at every whitespace: " " and "\n" are the whitespace atoms and  *)
(* every other atom of such a text is whitespace-free.  The persona        *)
(* preambles, the section markers and the line labels of the prompt        *)
(* builders are single atoms.  Optional[T] is a set with at most one       *)
(* element: None is {} and a value v is {v}.  The outcome of a call is a   *)
(* value: Returned(v) or Raised(exc, status, msg).                         *)
(***************************************************************************)
EXTENDS Integers, Sequences, FiniteSets, TLC

VARIABLES
    GEMINI_AVAILABLE,   \* llm_client.py:15-19, set once at import
    GEMINI_API_KEY,     \* config.py:33, Optional[str], set once at start-up
    kind,               \* kind[r]: the entry point request r came through
    req,                \* req[r]: the arguments of the entry point (its locals)
    pc,                 \* pc[r]: "idle" | "awaiting" | "ready" | "done"
    path,               \* path[r]: "none" | "plain" | "enriched" (ai_chat's branch)
    enhanced,           \* enhanced[r]: Optional, what _build_enhanced_prompt returned
    call,               \* call[r]: Optional, the arguments the provider was invoked with
    calls,              \* calls[r]: number of provider invocations made for r
    outcome,            \* outcome[r]: Optional, what the provider thread ended with
    ret,                \* ret[r]: Optional, what LLMClient.generate gave its caller
    resp                \* resp[r]: Optional, the HTTP response of request r

vars == <<GEMINI_AVAILABLE, GEMINI_API_KEY, kind, req, pc, path, enhanced,
          call, calls, outcome, ret, resp>>

(***************************************************************************)
(* Bounds of the model.                                                    *)
(***************************************************************************)
NumRequests == 2      \* requests in flight at once (concurrent specification)
MaxMemory == 2        \* memory items of one request
MaxModelSegs == 2     \* segments a model identifier is put together from

(***************************************************************************)
(* Program constants.                                                      *)
(***************************************************************************)
EXCERPT_CHARS == 500      \* [:500] of selectedText / pageContent
SUMMARY_CHARS == 3000     \* [:3000] of pageContent in /summarize, /analyze
MAX_TOKENS == 1000        \* settings.MAX_TOKENS
TEMPERATURE == 7          \* settings.TEMPERATURE = 0.7, in tenths

(***************************************************************************)
(* Optional values and Python truthiness.                                  *)
(***************************************************************************)
None == {}
Some(v) == {v}
The(o) == CHOOSE v \in o : TRUE

\* bool(x) of an Optional str or Optional list: None, "" and [] are falsy
Truthy(o) == o # None /\ The(o) # <<>>
\* bool(x) of an Optional number: None and 0 are falsy
TruthyNum(o) == o # None /\ The(o) # 0
\* bool(x) of an Optional object without __bool__/__len__ (a pydantic model)
TruthyObj(o) == o # None

(***************************************************************************)
(* str operations.                                                         *)
(***************************************************************************)
Whitespace == {" ", "\n"}

Min(a, b) == IF a <= b THEN a ELSE b

\* Take keeping one atom too many: s[:n + 1]
TakeOneMore(s, n) == SubSeq(s, 1, Min(n + 1, Len(s)))

\* s[:n]
Take(s, n) == SubSeq(s, 1, Min(n, Len(s)))
\* s[n:]
Drop(s, n) == SubSeq(s, n + 1, Len(s))

\* s.startswith(p)
StartsWith(s, p) == Len(p) <= Len(s) /\ SubSeq(s, 1, Len(p)) = p

\* s.replace(old, ''), old non-empty: every non-overlapping occurrence, left to right
RECURSIVE Remove(_, _)
Remove(s, old) ==
    IF Len(s) < Len(old) THEN s
    ELSE IF StartsWith(s, old) THEN Remove(Drop(s, Len(old)), old)
    ELSE <<Head(s)>> \o Remove(Tail(s), old)

RECURSIVE LStrip(_)
LStrip(s) == IF s # <<>> /\ Head(s) \in Whitespace THEN LStrip(Tail(s)) ELSE s

RECURSIVE RStrip(_)
RStrip(s) ==
    IF s # <<>> /\ s[Len(s)] \in Whitespace THEN RStrip(SubSeq(s, 1, Len(s) - 1)) ELSE s

\* s.strip()
Strip(s) == RStrip(LStrip(s))

\* s.split(): the list of maximal whitespace-free runs of s
RECURSIVE SplitFrom(_, _)
SplitFrom(s, word) ==
    IF s = <<>> THEN (IF word = <<>> THEN <<>> ELSE <<word>>)
    ELSE IF Head(s) \in Whitespace
         THEN (IF word = <<>> THEN <<>> ELSE <<word>>) \o SplitFrom(Tail(s), <<>>)
         ELSE SplitFrom(Tail(s), Append(word, Head(s)))

Split(s) == SplitFrom(s, <<>>)

\* sep.join(parts)
RECURSIVE Join(_, _)
Join(parts, sep) ==
    IF parts = <<>> THEN <<>>
    ELSE IF Len(parts) = 1 THEN parts[1]
    ELSE parts[1] \o sep \o Join(Tail(parts), sep)

\* the concatenation of a list of lists
RECURSIVE Flatten(_)
Flatten(ss) == IF ss = <<>> THEN <<>> ELSE Head(ss) \o Flatten(Tail(ss))

\* p in s
Contains(s, p) ==
    \E i \in 1..(Len(s) - Len(p) + 1) : SubSeq(s, i, i + Len(p) - 1) = p

(***************************************************************************)
(* Results of a call: a returned value or a raised exception.              *)
(***************************************************************************)
Returned(v) == [ok |-> TRUE, v |-> v, msg |-> <<>>]
Raised(exc, status, msg) ==
    [ok |-> FALSE, v |-> <<>>, exc |-> exc, status |-> status, msg |-> msg]

(***************************************************************************)
(* Dictionaries: a dict is a function from the keys it has to Optional     *)
(* values; {} is the function with the empty domain.                       *)
(***************************************************************************)
\* d.get(k)
Get(d, k) == IF k \in DOMAIN d THEN d[k] ELSE None
\* bool(d) of an Optional dict: None and {} are falsy
TruthyDict(o) == o # None /\ DOMAIN The(o) # {}

(***************************************************************************)
(* Literals of llm_client.py.                                              *)
(***************************************************************************)
ERR_SDK ==
    <<"Error:", " ", "Gemini", " ", "SDK", " ", "not", " ", "installed.", " ", "Run:",
      " ", "pip", " ", "install", " ", "google-generativeai">>
ERR_KEY == <<"Error:", " ", "Gemini", " ", "API", " ", "key", " ", "not", " ", "configured">>
API_ERROR_PREFIX == <<"Gemini", " ", "API", " ", "error:", " ">>
GENERATION_ERROR_PREFIX == <<"VynceAI", " ", "generation", " ", "error:", " ">>
MODELS_PREFIX == <<"m", "o", "d", "e", "l", "s", "/">>
GEMINI_MODEL == <<"gemini-2.5-flash">>
CLIENT_PERSONA == <<"You are VynceAI, an intelligent AI-powered browser assistant. [...]">>

(***************************************************************************)
(* LLMClient                                                               *)
(***************************************************************************)
\* LLMClient._build_prompt(prompt, context): context is an Optional dict with the
\* keys url, title, selected_text, page_content
BuildPrompt(prompt, context) ==
    IF ~TruthyDict(context) THEN prompt
    ELSE LET c == The(context)
             context_parts ==
                 <<CLIENT_PERSONA>>
                 \o (IF Truthy(Get(c, "url"))
                     THEN << <<"\n", "Current page URL: ">> \o The(Get(c, "url")) >>
                     ELSE <<>>)
                 \o (IF Truthy(Get(c, "title"))
                     THEN << <<"Page title: ">> \o The(Get(c, "title")) >>
                     ELSE <<>>)
                 \o (IF Truthy(Get(c, "selected_text"))
                     THEN << <<"Selected text: ">> \o The(Get(c, "selected_text")) >>
                     ELSE <<>>)
                 \o (IF Truthy(Get(c, "page_content"))
                     THEN << <<"Page content: ">>
                             \o Take(The(Get(c, "page_content")), EXCERPT_CHARS)
                             \o <<"...">> >>
                     ELSE <<>>)
                 \o << <<"\n", "User question: ">> \o prompt >>
                 \o << <<"\n", "VynceAI response:">> >>
         IN Join(context_parts, <<"\n">>)

\* generate, lines 66-67: temperature or settings.TEMPERATURE
OrDefault(value, default) == IF TruthyNum(value) THEN The(value) ELSE default

\* _gemini_generate, lines 128-131: the text returned without any provider call,
\* None when the SDK and the credential are both there
GeminiGuard(available, key) ==
    IF ~available THEN Some(ERR_SDK)
    ELSE IF ~Truthy(key) THEN Some(ERR_KEY)
    ELSE None

\* _gemini_generate, lines 134-137: the model name the provider is called with
ModelName(model) ==
    LET model_name == IF Truthy(model) THEN The(model) ELSE GEMINI_MODEL
    IN IF StartsWith(model_name, MODELS_PREFIX)
       THEN Remove(model_name, MODELS_PREFIX)
       ELSE model_name

\* _gemini_generate, lines 141-145: genai.GenerativeModel(model_name) and
\* generate_content(prompt); temperature and max_tokens are parameters of the
\* function and are given to neither call
ProviderCall(prompt, model, temperature, max_tokens) ==
    [model_name |-> ModelName(model), contents |-> prompt, generation_config |-> None]

\* GeminiResult with the except branch returning str(e) alone
GeminiResultBare(out) ==
    IF out.ok THEN [ok |-> TRUE, v |-> RStrip(LStrip(out.v))]
    ELSE [ok |-> TRUE, v |-> out.msg]

\* _gemini_generate, lines 147-154: what it returns once the provider thread ended
GeminiResult(out) ==
    IF out.ok THEN Returned(Strip(out.v))
    ELSE Returned(API_ERROR_PREFIX \o out.msg)

\* generate, lines 74-80: try: return await _gemini_generate(...) except Exception
GenerateResult(res) ==
    IF res.ok THEN res
    ELSE Returned(GENERATION_ERROR_PREFIX \o res.msg)

\* generate, lines 65-75: the arguments _gemini_generate is called with
GenerateArgs(a) ==
    [prompt |-> BuildPrompt(a.prompt, a.context),
     model |-> a.model,
     temperature |-> OrDefault(a.temperature, TEMPERATURE),
     max_tokens |-> OrDefault(a.max_tokens, MAX_TOKENS)]

\* LLMClient.get_available_models, lines 161-164: the list it returns with a key
GEMINI_MODELS ==
    <<[id |-> <<"gemini-2.5-flash">>, name |-> <<"Gemini", " ", "2.5", " ", "Flash">>,
       provider |-> <<"gemini">>],
      [id |-> <<"gemini-1.5-flash">>, name |-> <<"Gemini", " ", "1.5", " ", "Flash">>,
       provider |-> <<"gemini">>]>>

\* ClientAvailableModels testing the key against None instead of its truth value
ClientAvailableModelsNotNone(key) == IF key = None THEN <<>> ELSE GEMINI_MODELS

\* LLMClient.get_available_models, lines 156-164, key = settings.GEMINI_API_KEY
ClientAvailableModels(key) == IF ~Truthy(key) THEN <<>> ELSE GEMINI_MODELS

(***************************************************************************)
(* ai_service.py                                                           *)
(***************************************************************************)
PERSONA == <<"You are VynceAI, an intelligent AI-powered web assistant and browser extension. [...]">>
HISTORY_BEGIN == <<"\n", "=== Recent Conversation History ===">>
HISTORY_END == <<"=== End History ===", "\n">>
CONTEXT_BEGIN == <<"\n", "=== Page Context ===">>
CONTEXT_END == <<"=== End Context ===", "\n">>
QUESTION_LABEL == <<"\n", "User Question: ">>
RESPONSE_CUE == <<"\n", "VynceAI Response:">>

\* item.get(k, '') of a memory item
ItemGet(item, k) == IF k \in DOMAIN item THEN item[k] ELSE <<>>

\* MemoryParts walking the history from its last item to its first
RECURSIVE MemoryPartsReversed(_)
MemoryPartsReversed(memory) ==
    IF memory = <<>> THEN <<>>
    ELSE MemoryPartsReversed(Tail(memory))
         \o << <<"User: ">> \o ItemGet(Head(memory), "user"),
                <<"VynceAI: ">> \o ItemGet(Head(memory), "bot") >>

\* _build_enhanced_prompt, lines 122-124: the lines of the history block
RECURSIVE MemoryParts(_)
MemoryParts(memory) ==
    IF memory = <<>> THEN <<>>
    ELSE << <<"User: ">> \o ItemGet(Head(memory), "user"),
            <<"VynceAI: ">> \o ItemGet(Head(memory), "bot") >>
         \o MemoryParts(Tail(memory))

\* ContextParts with one excerpt only: selected text, else snippet, else page content
ContextPartsOneExcerpt(c) ==
    (IF Truthy(Get(c, "url"))
     THEN << <<"Current Page: ">> \o The(Get(c, "url")) >> ELSE <<>>)
    \o (IF Truthy(Get(c, "title"))
        THEN << <<"Page Title: ">> \o The(Get(c, "title")) >> ELSE <<>>)
    \o (IF Truthy(Get(c, "selectedText"))
        THEN << <<"Selected Text: ">> \o Take(The(Get(c, "selectedText")), EXCERPT_CHARS) >>
        ELSE IF Truthy(Get(c, "snippet"))
        THEN << <<"Page Snippet: ">> \o The(Get(c, "snippet")) >>
        ELSE IF Truthy(Get(c, "pageContent"))
        THEN << <<"Page Content: ">> \o Take(The(Get(c, "pageContent")), EXCERPT_CHARS) >>
        ELSE <<>>)

\* _build_enhanced_prompt, lines 129-144: context_parts of a dict c
ContextParts(c) ==
    (IF Truthy(Get(c, "url"))
     THEN << <<"Current Page: ">> \o The(Get(c, "url")) >> ELSE <<>>)
    \o (IF Truthy(Get(c, "title"))
        THEN << <<"Page Title: ">> \o The(Get(c, "title")) >> ELSE <<>>)
    \o (IF Truthy(Get(c, "selectedText"))
        THEN << <<"Selected Text: ">> \o Take(The(Get(c, "selectedText")), EXCERPT_CHARS) >>
        ELSE <<>>)
    \o (IF Truthy(Get(c, "snippet"))
        THEN << <<"Page Snippet: ">> \o The(Get(c, "snippet")) >>
        ELSE IF Truthy(Get(c, "pageContent"))
        THEN << <<"Page Content: ">> \o Take(The(Get(c, "pageContent")), EXCERPT_CHARS) >>
        ELSE <<>>)

\* _build_enhanced_prompt(prompt, context, memory), lines 93-153: the list parts
EnhancedParts(prompt, context, memory) ==
    <<PERSONA>>
    \o (IF Truthy(memory)
        THEN <<HISTORY_BEGIN>> \o MemoryParts(The(memory)) \o <<HISTORY_END>>
        ELSE <<>>)
    \o (IF TruthyDict(context) /\ ContextParts(The(context)) # <<>>
        THEN <<CONTEXT_BEGIN>> \o ContextParts(The(context)) \o <<CONTEXT_END>>
        ELSE <<>>)
    \o << QUESTION_LABEL \o prompt >>
    \o << RESPONSE_CUE >>

\* _build_enhanced_prompt, line 155: "\n".join(parts)
BuildEnhancedPrompt(prompt, context, memory) ==
    Join(EnhancedParts(prompt, context, memory), <<"\n">>)

\* process_ai_query_advanced, lines 58-63: context.model_dump(by_alias=True) of a
\* PageContext object (a record of its five fields) is the dict with the same keys
ContextDict(context) == IF TruthyObj(context) THEN context ELSE None

\* process_ai_query(prompt, model), line 29: the arguments of generate
ProcessAiQueryArgs(prompt, model) ==
    [prompt |-> prompt, model |-> Some(model), context |-> None,
     temperature |-> None, max_tokens |-> None]

\* process_ai_query_advanced, lines 66-72: the arguments of generate
ProcessAdvancedArgs(prompt, context, memory, model) ==
    [prompt |-> BuildEnhancedPrompt(prompt, ContextDict(context), memory),
     model |-> Some(model), context |-> None,
     temperature |-> None, max_tokens |-> None]

\* Tokens counting characters instead of words
TokensChars(response_text) == Len(response_text)

\* process_ai_query_advanced, line 77: len(response_text.split())
Tokens(response_text) == Len(Split(response_text))

\* process_ai_query_advanced, lines 74-79: the dict it returns
ProcessAdvancedResult(response_text, model) ==
    [response |-> response_text, model |-> Some(model),
     tokens |-> Tokens(response_text), success |-> TRUE]

(***************************************************************************)
(* routes_ai.py.  A request is an AIRequest: prompt, Optional context (a   *)
(* PageContext), Optional memory (a list of MemoryItem), Optional model.   *)
(***************************************************************************)
ROUTE_DEFAULT_MODEL == <<"gemini-2.5-flash">>
SUMMARIZE_DETAIL == <<"Page content is required for summarization">>
ANALYZE_DETAIL == <<"Page content is required for analysis">>

\* req.model or "gemini-2.5-flash"
ResolveModel(q) == IF Truthy(q.model) THEN The(q.model) ELSE ROUTE_DEFAULT_MODEL

\* UseAdvanced with the memory test left out
UseAdvancedContextOnly(q) == TruthyObj(q.context)

\* ai_chat, line 36: if req.context or req.memory
UseAdvanced(q) == TruthyObj(q.context) \/ Truthy(q.memory)

\* ai_chat, lines 31-33: memory_list
MemoryList(q) == IF Truthy(q.memory) THEN q.memory ELSE None

\* ai_chat, lines 36-49: the arguments generate is called with
ChatArgs(q) ==
    IF UseAdvanced(q)
    THEN ProcessAdvancedArgs(q.prompt, q.context, MemoryList(q), ResolveModel(q))
    ELSE ProcessAiQueryArgs(q.prompt, ResolveModel(q))

\* ai_chat, lines 43 and 50: the AIResponse built from what generate returned
ChatBody(q, gen) ==
    IF ~gen.ok THEN gen
    ELSE IF UseAdvanced(q)
    THEN Returned(ProcessAdvancedResult(gen.v, ResolveModel(q)))
    ELSE Returned([response |-> gen.v, model |-> q.model])

\* ai_query, lines 91-92
QueryArgs(q) == ProcessAiQueryArgs(q.prompt, ResolveModel(q))
QueryBody(q, gen) == IF ~gen.ok THEN gen ELSE Returned([response |-> gen.v])

\* summarize_page / analyze_page, lines 112 and 161
HasPageContent(q) == ~(~TruthyObj(q.context) \/ ~Truthy(Get(The(q.context), "pageContent")))

\* value if value else 'Unknown'
OrUnknown(o) == IF Truthy(o) THEN The(o) ELSE <<"Unknown">>

\* the f-string of lines 116-130 (instructions) or 165-181
PageTemplate(head, tail, q) ==
    LET c == The(q.context)
    IN head \o <<"\n", "\n", "Title: ">> \o OrUnknown(Get(c, "title"))
       \o <<"\n", "URL: ">> \o OrUnknown(Get(c, "url"))
       \o <<"\n", "\n", "Content:", "\n">>
       \o Take(The(Get(c, "pageContent")), SUMMARY_CHARS)
       \o <<"\n", "\n">> \o tail

SummarizePrompt(q) ==
    PageTemplate(<<"Please provide a comprehensive summary of this webpage:">>,
                 <<"Provide: [...] Be concise but informative.">>, q)

AnalyzePrompt(q) ==
    PageTemplate(<<"Please provide a detailed analysis of this webpage:">>,
                 <<"Analyze: [...] Provide useful insights.">>, q)

SummarizeArgs(q) == ProcessAiQueryArgs(SummarizePrompt(q), ResolveModel(q))
AnalyzeArgs(q) == ProcessAiQueryArgs(AnalyzePrompt(q), ResolveModel(q))

\* summarize_page, lines 134-139 / analyze_page, lines 185-190
PageBody(q, gen) ==
    IF ~gen.ok THEN gen
    ELSE Returned([response |-> gen.v, model |-> q.model,
                   url |-> Get(The(q.context), "url"),
                   title |-> Get(The(q.context), "title")])

\* ai_service.get_available_models, line 164: return await llm_client.get_available_models()
GetAvailableModels(key) == Returned(ClientAvailableModels(key))

\* list_models, lines 67-71
ModelsBody(res) ==
    IF ~res.ok THEN res ELSE Returned([models |-> res.v, count |-> Len(res.v)])

\* ai_chat / ai_query / list_models: try ... except Exception -> 500
CatchAll(res) ==
    IF res.ok THEN [status |-> 200, body |-> res.v]
    ELSE [status |-> 500, body |-> [detail |-> res.msg]]

\* CatchReraise without the except HTTPException: raise clause
CatchReraiseMissing(res) == CatchAll(res)

\* summarize_page / analyze_page: except HTTPException: raise; except Exception -> 500
CatchReraise(res) ==
    IF res.ok THEN [status |-> 200, body |-> res.v]
    ELSE IF res.exc = "HTTPException" THEN [status |-> res.status, body |-> [detail |-> res.msg]]
    ELSE [status |-> 500, body |-> [detail |-> res.msg]]

\* the arguments entry point k calls generate with
ArgsOf(k, q) ==
    CASE k = "chat" -> ChatArgs(q)
      [] k = "query" -> QueryArgs(q)
      [] k = "summarize" -> SummarizeArgs(q)
      [] k = "analyze" -> AnalyzeArgs(q)
      [] k = "generate" -> q

\* the HTTP response of entry point k once generate ended with gen; a direct call
\* of LLMClient.generate has none
ResponseOf(k, q, gen) ==
    CASE k = "chat" -> Some(CatchAll(ChatBody(q, gen)))
      [] k = "query" -> Some(CatchAll(QueryBody(q, gen)))
      [] k \in {"summarize", "analyze"} -> Some(CatchReraise(PageBody(q, gen)))
      [] k = "generate" -> None

\* ai_chat's branch
PathOf(k, q) ==
    IF k # "chat" THEN "none" ELSE IF UseAdvanced(q) THEN "enriched" ELSE "plain"

\* what _build_enhanced_prompt returned, on the enriched path
EnhancedOf(k, q) ==
    IF k = "chat" /\ UseAdvanced(q)
    THEN Some(BuildEnhancedPrompt(q.prompt, ContextDict(q.context), MemoryList(q)))
    ELSE None

(***************************************************************************)
(* Inputs.                                                                 *)
(***************************************************************************)
\* an atom that names request r: the data of request r carries it
Tag(r) == <<"#1", "#2", "#3", "#4">>[r]

BoundedSeq(S, n) == UNION {[1..m -> S] : m \in 0..n}

ContextKeys == {"url", "title", "selectedText", "snippet", "pageContent"}

PageContext(url, title, selectedText, snippet, pageContent) ==
    [url |-> url, title |-> title, selectedText |-> selectedText,
     snippet |-> snippet, pageContent |-> pageContent]

MemoryItems ==
    {[user |-> <<"u", "1">>, bot |-> <<"b", "1">>, timestamp |-> 1],
     [user |-> <<"u", "2">>, bot |-> <<"b", " ", "2">>, timestamp |-> 2]}

Memories == {None} \cup {Some(m) : m \in BoundedSeq(MemoryItems, MaxMemory)}

Prompts == {<<"hi">>, <<" ", "What", " ", "is", " ", "this?", "\n">>}

PageContexts ==
    {PageContext(u, t, s, n, p) :
        u \in {None, Some(<<"https://x.com">>)},
        t \in {None, Some(<<"X">>)},
        s \in {None, Some(<<"sel", " ", "text">>)},
        n \in {None, Some(<<"snip">>)},
        p \in {None, Some(<<>>), Some(<<"Lorem", " ", "ipsum">>)}}

RequestModels == {None, Some(<<>>), Some(<<"gemini-1.5-flash">>)}

AIRequest(prompt, context, memory, model) ==
    [prompt |-> prompt, context |-> context, memory |-> memory, model |-> model]

ChatRequests ==
    {AIRequest(p, c, m, md) :
        p \in Prompts, c \in {None} \cup {Some(x) : x \in PageContexts},
        m \in Memories, md \in RequestModels}

\* the handlers of /query, /summarize and /analyze never read req.memory
PageRequests == {q \in ChatRequests : q.memory = None}
QueryRequests == {q \in PageRequests : q.context = None}

\* model identifiers: up to MaxModelSegs segments, each "models/" or "pro"
ModelSegments == {MODELS_PREFIX, <<"p", "r", "o">>}
ModelIds == {Flatten(ss) : ss \in BoundedSeq(ModelSegments, MaxModelSegs)}

ClientContexts ==
    {None, Some(<<>>),
     Some([url |-> Some(<<"https://x.com">>), title |-> None,
           selected_text |-> Some(<<"sel">>), page_content |-> Some(<<"Lorem">>)])}

Temperatures == {None, Some(0), Some(3)}
MaxTokenValues == {None, Some(0), Some(256)}

GenerateCalls ==
    {[prompt |-> <<"hi">>, model |-> md, context |-> c, temperature |-> t, max_tokens |-> mt] :
        md \in {None} \cup {Some(m) : m \in ModelIds},
        c \in ClientContexts, t \in Temperatures, mt \in MaxTokenValues}

\* what the provider thread of request r can end with
ProviderTexts(r) == {<<>>, <<" ", "It", " ", " ", "is", "\n", Tag(r), " ", "\n">>}
ProviderErrors(r) == {<<>>, <<"429", " ", "quota", " ", Tag(r)>>}

ApiKeys == {None, Some(<<>>), Some(<<"k">>)}

(***************************************************************************)
(* Steps.  A handler runs from the arrival of its request to its first     *)
(* suspension, the await of asyncio.to_thread in _gemini_generate, or to   *)
(* its end when there is none; the provider thread ends; the handler       *)
(* resumes and runs to its end.                                            *)
(***************************************************************************)
\* request q arrives at entry point k and generate is called
Begin(r, k, q) ==
    LET g == GenerateArgs(ArgsOf(k, q))
        guard == GeminiGuard(GEMINI_AVAILABLE, GEMINI_API_KEY)
        gen == GenerateResult(Returned(The(guard)))
    IN /\ pc[r] = "idle"
       /\ kind' = [kind EXCEPT ![r] = k]
       /\ req' = [req EXCEPT ![r] = q]
       /\ path' = [path EXCEPT ![r] = PathOf(k, q)]
       /\ enhanced' = [enhanced EXCEPT ![r] = EnhancedOf(k, q)]
       /\ IF guard # None
          THEN /\ ret' = [ret EXCEPT ![r] = Some(gen)]
               /\ resp' = [resp EXCEPT ![r] = ResponseOf(k, q, gen)]
               /\ pc' = [pc EXCEPT ![r] = "done"]
               /\ UNCHANGED <<call, calls>>
          ELSE /\ call' = [call EXCEPT ![r] =
                              Some(ProviderCall(g.prompt, g.model, g.temperature, g.max_tokens))]
               /\ calls' = [calls EXCEPT ![r] = @ + 1]
               /\ pc' = [pc EXCEPT ![r] = "awaiting"]
               /\ UNCHANGED <<ret, resp>>
       /\ UNCHANGED <<GEMINI_AVAILABLE, GEMINI_API_KEY, outcome>>

\* summarize_page / analyze_page, lines 112-113: raise HTTPException(400)
Reject(r, k, q, detail) ==
    /\ pc[r] = "idle"
    /\ kind' = [kind EXCEPT ![r] = k]
    /\ req' = [req EXCEPT ![r] = q]
    /\ resp' = [resp EXCEPT ![r] = Some(CatchReraise(Raised("HTTPException", 400, detail)))]
    /\ pc' = [pc EXCEPT ![r] = "done"]
    /\ UNCHANGED <<GEMINI_AVAILABLE, GEMINI_API_KEY, path, enhanced, call, calls, outcome, ret>>

HandleChat(r, q) == Begin(r, "chat", q)
HandleQuery(r, q) == Begin(r, "query", q)
HandleSummarize(r, q) ==
    IF HasPageContent(q) THEN Begin(r, "summarize", q)
    ELSE Reject(r, "summarize", q, SUMMARIZE_DETAIL)
HandleAnalyze(r, q) ==
    IF HasPageContent(q) THEN Begin(r, "analyze", q)
    ELSE Reject(r, "analyze", q, ANALYZE_DETAIL)
CallGenerate(r, a) == Begin(r, "generate", a)

\* list_models, lines 56-75: GET /models
ListModels(r) ==
    /\ pc[r] = "idle"
    /\ kind' = [kind EXCEPT ![r] = "models"]
    /\ resp' = [resp EXCEPT ![r] = Some(CatchAll(ModelsBody(GetAvailableModels(GEMINI_API_KEY))))]
    /\ pc' = [pc EXCEPT ![r] = "done"]
    /\ UNCHANGED <<GEMINI_AVAILABLE, GEMINI_API_KEY, req, path, enhanced, call, calls, outcome, ret>>

\* the provider thread of request r ends with out
ThreadEnds(r, out) ==
    /\ pc[r] = "awaiting"
    /\ outcome' = [outcome EXCEPT ![r] = Some(out)]
    /\ pc' = [pc EXCEPT ![r] = "ready"]
    /\ UNCHANGED <<GEMINI_AVAILABLE, GEMINI_API_KEY, kind, req, path, enhanced,
                   call, calls, ret, resp>>

\* Awaited reading one result slot shared by all requests
AwaitedShared(r) == The(outcome[CHOOSE s \in DOMAIN outcome : outcome[s] # None])

\* _gemini_generate, line 142: what the await of request r's thread gives
Awaited(r) == The(outcome[r])

\* ResumeOf calling the provider once more after a failed attempt
ResumeOfRetry(r) ==
    LET gen == GenerateResult(GeminiResult(Awaited(r)))
    IN /\ pc[r] = "ready"
       /\ IF ~Awaited(r).ok /\ calls[r] < 2
          THEN /\ calls' = [calls EXCEPT ![r] = @ + 1]
               /\ outcome' = [outcome EXCEPT ![r] = None]
               /\ pc' = [pc EXCEPT ![r] = "awaiting"]
               /\ UNCHANGED <<ret, resp>>
          ELSE /\ ret' = [ret EXCEPT ![r] = Some(gen)]
               /\ resp' = [resp EXCEPT ![r] = ResponseOf(kind[r], req[r], gen)]
               /\ pc' = [pc EXCEPT ![r] = "done"]
               /\ UNCHANGED <<calls, outcome>>
       /\ UNCHANGED <<GEMINI_AVAILABLE, GEMINI_API_KEY, kind, req, path, enhanced, call>>

\* the handler of request r resumes after the await and runs to its end
ResumeOf(r) ==
    LET gen == GenerateResult(GeminiResult(Awaited(r)))
    IN /\ pc[r] = "ready"
       /\ ret' = [ret EXCEPT ![r] = Some(gen)]
       /\ resp' = [resp EXCEPT ![r] = ResponseOf(kind[r], req[r], gen)]
       /\ pc' = [pc EXCEPT ![r] = "done"]
       /\ UNCHANGED <<GEMINI_AVAILABLE, GEMINI_API_KEY, kind, req, path, enhanced,
                      call, calls, outcome>>

(***************************************************************************)
(* Spec: one request at a time through any entry point.                    *)
(***************************************************************************)
NoRequest == AIRequest(<<>>, None, None, None)

InitSlots(S) ==
    /\ kind = [r \in S |-> "none"]
    /\ req = [r \in S |-> NoRequest]
    /\ pc = [r \in S |-> "idle"]
    /\ path = [r \in S |-> "none"]
    /\ enhanced = [r \in S |-> None]
    /\ call = [r \in S |-> None]
    /\ calls = [r \in S |-> 0]
    /\ outcome = [r \in S |-> None]
    /\ ret = [r \in S |-> None]
    /\ resp = [r \in S |-> None]

Init ==
    /\ GEMINI_AVAILABLE \in BOOLEAN
    /\ GEMINI_API_KEY \in ApiKeys
    /\ InitSlots({1})

\* the slots with no request yet
Idle == {r \in DOMAIN pc : pc[r] = "idle"}

Chat == \E r \in Idle : \E q \in ChatRequests : HandleChat(r, q)
Query == \E r \in Idle : \E q \in QueryRequests : HandleQuery(r, q)
Summarize == \E r \in Idle : \E q \in PageRequests : HandleSummarize(r, q)
Analyze == \E r \in Idle : \E q \in PageRequests : HandleAnalyze(r, q)
Generate == \E r \in Idle : \E a \in GenerateCalls : CallGenerate(r, a)
Models == \E r \in Idle : ListModels(r)
ProviderReturns == \E r \in DOMAIN pc : \E t \in ProviderTexts(r) : ThreadEnds(r, Returned(t))
ProviderRaises ==
    \E r \in DOMAIN pc : \E e \in ProviderErrors(r) : ThreadEnds(r, Raised("Exception", 0, e))
Resume == \E r \in DOMAIN pc : ResumeOf(r)

Next ==
    \/ Chat
    \/ Query
    \/ Summarize
    \/ Analyze
    \/ Generate
    \/ Models
    \/ ProviderReturns
    \/ ProviderRaises
    \/ Resume

Spec == Init /\ [][Next]_vars

(***************************************************************************)
(* SpecPrompt: _build_enhanced_prompt applied to one (prompt, context,     *)
(* memory) drawn from ComposeCalls.                                        *)
(***************************************************************************)
\* a text of EXCERPT_CHARS atoms c followed by one atom z
LongText(c, z) == [i \in 1..(EXCERPT_CHARS + 1) |-> IF i <= EXCERPT_CHARS THEN c ELSE z]

ComposeContexts ==
    {None, Some(<<>>)} \cup
    {Some(PageContext(u, t, s, n, p)) :
        u \in {None, Some(<<"https://x.com">>)},
        t \in {None, Some(<<"X">>)},
        s \in {None, Some(<<>>), Some(<<"sel", " ", "text">>), Some(LongText("s", "S"))},
        n \in {None, Some(<<>>), Some(<<"snip">>)},
        p \in {None, Some(<<>>), Some(<<"Lorem", " ", "ipsum">>), Some(LongText("c", "C"))}}

ComposeCalls ==
    {AIRequest(<<"What", " ", "now?">>, c, m, None) : c \in ComposeContexts, m \in Memories}

Compose ==
    \E r \in Idle : \E a \in ComposeCalls :
        /\ kind' = [kind EXCEPT ![r] = "compose"]
        /\ req' = [req EXCEPT ![r] = a]
        /\ enhanced' = [enhanced EXCEPT ![r] =
                           Some(BuildEnhancedPrompt(a.prompt, a.context, a.memory))]
        /\ pc' = [pc EXCEPT ![r] = "done"]
        /\ UNCHANGED <<GEMINI_AVAILABLE, GEMINI_API_KEY, path, call, calls, outcome, ret, resp>>

InitPrompt ==
    /\ GEMINI_AVAILABLE = TRUE
    /\ GEMINI_API_KEY = Some(<<"k">>)
    /\ InitSlots({1})

NextPrompt == Compose

SpecPrompt == InitPrompt /\ [][NextPrompt]_vars

(***************************************************************************)
(* SpecConcurrent: NumRequests /chat requests in flight at once, their     *)
(* provider threads ending in any order.  Request r's data carries Tag(r). *)
(***************************************************************************)
TaggedRequests(r) ==
    {AIRequest(<<"ask", " ", Tag(r)>>, None, None, None),
     AIRequest(<<"ask", " ", Tag(r)>>,
               Some(PageContext(Some(<<"https://", Tag(r)>>), None, None, None,
                                Some(<<"page", " ", Tag(r)>>))),
               Some(<< [user |-> <<"u", Tag(r)>>, bot |-> <<"b", Tag(r)>>, timestamp |-> r] >>),
               Some(<<"gemini-", Tag(r)>>))}

ConcurrentChat == \E r \in Idle : \E q \in TaggedRequests(r) : HandleChat(r, q)

InitConcurrent ==
    /\ GEMINI_AVAILABLE \in BOOLEAN
    /\ GEMINI_API_KEY \in ApiKeys
    /\ InitSlots(1..NumRequests)

NextConcurrent ==
    \/ ConcurrentChat
    \/ ProviderReturns
    \/ ProviderRaises
    \/ Resume

SpecConcurrent == InitConcurrent /\ [][NextConcurrent]_vars

(***************************************************************************)
(* Properties.                                                             *)
(***************************************************************************)
Requests == DOMAIN pc

\* request r got as far as calling LLMClient.generate
GenerateCalled(r) ==
    /\ pc[r] # "idle"
    /\ kind[r] \in {"chat", "query", "summarize", "analyze", "generate"}
    /\ kind[r] \in {"summarize", "analyze"} =>
           /\ req[r].context # None
           /\ Get(The(req[r].context), "pageContent") \notin {None, Some(<<>>)}

ErrorMarkers ==
    {<<"Error:">>, <<"Gemini", " ", "API", " ", "error:">>,
     <<"VynceAI", " ", "generation", " ", "error:">>}

HasErrorMarker(text) == \E m \in ErrorMarkers : StartsWith(text, m)

CredentialAbsent == GEMINI_API_KEY \in {None, Some(<<>>)}

\* a fault case of generate: SDK absent, credential absent, or the provider raised
Fault(r) ==
    \/ ~GEMINI_AVAILABLE
    \/ CredentialAbsent
    \/ (outcome[r] # None /\ ~The(outcome[r]).ok)

\* C1: every call of LLMClient.generate that has ended returned a text and raised
\* nothing, in every fault case the text begins with an error marker, and a POST /query
\* without a credential ended in a 200 whose response text carries the marker.
C1_GenerateNeverFailsOutward ==
    \A r \in Requests :
        (GenerateCalled(r) /\ pc[r] = "done") =>
            /\ ret[r] # None
            /\ The(ret[r]).ok
            /\ Fault(r) => HasErrorMarker(The(ret[r]).v)
            /\ (kind[r] = "query" /\ CredentialAbsent) =>
                   /\ resp[r] # None
                   /\ The(resp[r]).status = 200
                   /\ HasErrorMarker(The(resp[r]).body.response)

C1_Witness ==
    \E r \in Requests :
        /\ kind[r] = "query" /\ pc[r] = "done"
        /\ GEMINI_AVAILABLE /\ GEMINI_API_KEY = None
        /\ The(resp[r]).status = 200
        /\ The(resp[r]).body.response = ERR_KEY

\* C2: a /chat request takes the enriched path exactly when it carries a context or a
\* non-empty memory; otherwise it takes the plain path, and the text the provider is
\* called with is the request's prompt, atom for atom.
C2_ChatRouting ==
    \A r \in Requests :
        (kind[r] = "chat" /\ pc[r] # "idle") =>
            LET carries ==
                    \/ req[r].context # None
                    \/ (req[r].memory # None /\ Len(The(req[r].memory)) > 0)
            IN /\ path[r] = "enriched" <=> carries
               /\ path[r] = "plain" <=> ~carries
               /\ carries <=> enhanced[r] # None
               /\ (~carries /\ call[r] # None) => The(call[r]).contents = req[r].prompt
               /\ (carries /\ call[r] # None) => The(call[r]).contents = The(enhanced[r])

C2_Witness ==
    \E r \in Requests :
        /\ kind[r] = "chat" /\ path[r] = "plain"
        /\ req[r].memory = Some(<<>>)
        /\ Head(req[r].prompt) = " "
        /\ call[r] # None
        /\ The(call[r]).contents = req[r].prompt

(***************************************************************************)
(* The composed prompt, read back as text.                                 *)
(***************************************************************************)
Composed(r) == kind[r] = "compose" /\ pc[r] = "done"

\* the value of key k of request r's context: the empty text when there is none
Field(r, k) ==
    IF req[r].context # None /\ Get(The(req[r].context), k) # None
    THEN The(Get(The(req[r].context), k))
    ELSE <<>>

ExcerptLabels == {"Selected Text: ", "Page Snippet: ", "Page Content: "}

\* the line of s that starts at index j: up to the next "\n" atom or the end of s
LineAt(s, j) ==
    LET e == CHOOSE i \in j..(Len(s) + 1) :
                 /\ i = Len(s) + 1 \/ s[i] = "\n"
                 /\ \A k \in j..(i - 1) : s[k] # "\n"
    IN SubSeq(s, j, e - 1)

\* where the excerpt lines of s start
ExcerptStarts(s) ==
    {j \in 1..Len(s) : s[j] \in ExcerptLabels /\ (j = 1 \/ s[j - 1] = "\n")}

RECURSIVE LinesAt(_, _)
LinesAt(s, starts) ==
    IF starts = {} THEN <<>>
    ELSE LET j == CHOOSE m \in starts : \A x \in starts : m <= x
         IN <<LineAt(s, j)>> \o LinesAt(s, starts \ {j})

\* the excerpt lines of a text, in order
ExcerptLines(s) == LinesAt(s, ExcerptStarts(s))

\* the first 500 atoms of a text, by index
First500(s) == [i \in 1..(IF Len(s) < 500 THEN Len(s) ELSE 500) |-> s[i]]

\* C3 as stated: with selectedText and snippet both present the composed prompt has
\* the selected text and not the snippet, and the context block has one excerpt line.
C3_OnlySelectedText ==
    \A r \in Requests :
        (Composed(r) /\ Field(r, "selectedText") # <<>> /\ Field(r, "snippet") # <<>>) =>
            /\ Contains(The(enhanced[r]), First500(Field(r, "selectedText")))
            /\ ~Contains(The(enhanced[r]), Field(r, "snippet"))
            /\ Len(ExcerptLines(The(enhanced[r]))) = 1

\* C3 amended: the context block has the selected-text line (first 500 atoms) when
\* selected text is present and, besides it, one page line: the snippet when present,
\* else the page content (first 500 atoms) when present; so with selectedText and
\* snippet both present the prompt has both, the selected text first.
C3_SelectedTextAndSnippet ==
    \A r \in Requests :
        Composed(r) =>
            LET sel == Field(r, "selectedText")
                snip == Field(r, "snippet")
                page == Field(r, "pageContent")
            IN ExcerptLines(The(enhanced[r])) =
                   (IF sel # <<>> THEN << <<"Selected Text: ">> \o First500(sel) >> ELSE <<>>)
                   \o (IF snip # <<>> THEN << <<"Page Snippet: ">> \o snip >>
                       ELSE IF page # <<>> THEN << <<"Page Content: ">> \o First500(page) >>
                       ELSE <<>>)

C3_Witness ==
    \E r \in Requests :
        /\ Composed(r)
        /\ Field(r, "selectedText") = <<"sel", " ", "text">>
        /\ Field(r, "snippet") = <<"snip">>
        /\ Field(r, "pageContent") # <<>>
        /\ Contains(The(enhanced[r]),
                    <<"Selected Text: ", "sel", " ", "text", "\n", "Page Snippet: ", "snip", "\n">>)

\* the least index >= from at which p occurs in s; 0 when there is none
FindFrom(s, p, from) ==
    LET hits == {i \in from..(Len(s) - Len(p) + 1) : SubSeq(s, i, i + Len(p) - 1) = p}
    IN IF hits = {} THEN 0 ELSE CHOOSE i \in hits : \A j \in hits : i <= j

\* the texts of blocks occur in s one after the other, in order and without overlap,
\* the first at index >= from and the last ending at index <= upto
RECURSIVE InOrder(_, _, _, _)
InOrder(s, blocks, from, upto) ==
    IF blocks = <<>> THEN TRUE
    ELSE LET i == FindFrom(s, Head(blocks), from)
         IN /\ i # 0
            /\ i + Len(Head(blocks)) - 1 <= upto
            /\ InOrder(s, Tail(blocks), i + Len(Head(blocks)), upto)

\* the two lines of one memory item: the user turn, a newline, the bot turn
Turns(item) == <<"User: ">> \o item.user \o <<"\n", "VynceAI: ">> \o item.bot

\* the end of the composed prompt: the question and the assistant-turn cue
Ending(r) ==
    <<"\n", "User Question: ">> \o req[r].prompt \o <<"\n", "\n", "VynceAI Response:">>

\* C4: with a non-empty memory the composed prompt begins with the persona preamble
\* and ends with the user question and the assistant-turn cue; between the two it has,
\* for each memory item in the order supplied, the user turn immediately followed by
\* the bot turn; and all of them come before the context block.
C4_MemoryInOrder ==
    \A r \in Requests :
        (Composed(r) /\ req[r].memory # None /\ The(req[r].memory) # <<>>) =>
            LET text == The(enhanced[r])
                memory == The(req[r].memory)
                question == Len(text) - Len(Ending(r)) + 1
                block == FindFrom(text, <<"\n", "=== Page Context ===">>, 1)
                upto == IF block # 0 THEN block - 1 ELSE question - 1
            IN /\ StartsWith(text, PERSONA)
               /\ question > Len(PERSONA)
               /\ SubSeq(text, question, Len(text)) = Ending(r)
               /\ block # 0 => block < question
               /\ (block # 0) <=> (ExcerptLines(text) # <<>> \/ Field(r, "url") # <<>>
                                    \/ Field(r, "title") # <<>>)
               /\ InOrder(text, [i \in 1..Len(memory) |-> Turns(memory[i])],
                          Len(PERSONA) + 1, upto)

C4_Witness ==
    \E r \in Requests :
        /\ Composed(r)
        /\ req[r].memory # None
        /\ Len(The(req[r].memory)) = 2
        /\ The(req[r].memory)[1] # The(req[r].memory)[2]
        /\ Field(r, "snippet") # <<>>
        /\ FindFrom(The(enhanced[r]), Turns(The(req[r].memory)[2]), 1)
               < FindFrom(The(enhanced[r]), <<"\n", "=== Page Context ===">>, 1)

\* C5 as stated: a model identifier that starts with "models/" reaches the provider
\* without that leading prefix and otherwise unchanged; one that does not start with
\* it reaches the provider unchanged.
C5_LeadingPrefixOnly ==
    \A r \in Requests :
        (kind[r] = "generate" /\ call[r] # None /\ req[r].model \notin {None, Some(<<>>)}) =>
            LET model == The(req[r].model)
                n == Len(MODELS_PREFIX)
            IN The(call[r]).model_name =
                   IF Len(model) >= n /\ [i \in 1..n |-> model[i]] = MODELS_PREFIX
                   THEN [i \in 1..(Len(model) - n) |-> model[i + n]]
                   ELSE model

\* the model identifier a /chat request resolves to
Resolved(r) ==
    IF req[r].model \notin {None, Some(<<>>)} THEN The(req[r].model) ELSE <<"gemini-2.5-flash">>

\* C6 as stated: the model field of every /chat response, plain path or enriched, is
\* the resolved model identifier, never empty and never null.
C6_ModelEcho ==
    \A r \in Requests :
        (kind[r] = "chat" /\ pc[r] = "done") =>
            /\ The(resp[r]).status = 200
            /\ The(resp[r]).body.model = Some(Resolved(r))

\* C7 as stated: the provider call is handed the temperature and the max-token value
\* the caller supplied, 0 included, and the configured default when none was supplied.
C7_GenerationSettings ==
    \A r \in Requests :
        (kind[r] = "generate" /\ call[r] # None) =>
            The(call[r]).generation_config =
                Some([temperature |->
                          IF req[r].temperature # None THEN The(req[r].temperature) ELSE 7,
                      max_output_tokens |->
                          IF req[r].max_tokens # None THEN The(req[r].max_tokens) ELSE 1000])

\* the number of whitespace-separated words of a text: the places where a word starts
WordCount(text) ==
    Cardinality({i \in 1..Len(text) :
                    text[i] \notin {" ", "\n"} /\ (i = 1 \/ text[i - 1] \in {" ", "\n"})})

\* C8: on the enriched path the response record has success = true, whether the
\* provider answered or the error-text fallback came back, tokens = the number of
\* whitespace-separated words of the returned text, and model = the identifier passed.
C8_EnrichedRecord ==
    \A r \in Requests :
        (kind[r] = "chat" /\ path[r] = "enriched" /\ pc[r] = "done") =>
            LET body == The(resp[r]).body
            IN /\ The(resp[r]).status = 200
               /\ body.response = The(ret[r]).v
               /\ body.success = TRUE
               /\ body.tokens = WordCount(body.response)
               /\ body.response = <<>> => body.tokens = 0
               /\ body.model = Some(Resolved(r))

C8_Witness ==
    \E r \in Requests :
        /\ kind[r] = "chat" /\ path[r] = "enriched" /\ pc[r] = "done"
        /\ outcome[r] # None /\ ~The(outcome[r]).ok
        /\ The(resp[r]).body.success = TRUE
        /\ The(resp[r]).body.tokens = 6
        /\ HasErrorMarker(The(resp[r]).body.response)

\* C9: a /summarize or /analyze request without a context, or whose pageContent is
\* missing or empty, ends in a 400 with a detail message; LLMClient.generate is not
\* called and the provider is not invoked for it, and it does not end in a 500.
C9_MissingPageContent ==
    \A r \in Requests :
        (/\ kind[r] \in {"summarize", "analyze"}
         /\ pc[r] # "idle"
         /\ \/ req[r].context = None
            \/ Get(The(req[r].context), "pageContent") \in {None, Some(<<>>)}) =>
            /\ pc[r] = "done"
            /\ The(resp[r]).status = 400
            /\ The(resp[r]).body.detail # <<>>
            /\ ret[r] = None
            /\ call[r] = None
            /\ calls[r] = 0
            /\ outcome[r] = None

C9_Witness ==
    \E r \in Requests :
        /\ kind[r] = "analyze"
        /\ req[r].context # None
        /\ Get(The(req[r].context), "pageContent") = Some(<<>>)
        /\ The(resp[r]).status = 400
        /\ The(resp[r]).body.detail = ANALYZE_DETAIL

\* the atoms of a text
Atoms(text) == {text[i] : i \in 1..Len(text)}

\* the atoms that name a request other than r
OtherTags(r) == {Tag(s) : s \in Requests \ {r}}

\* the texts request r has sent to the provider or got back so far
TextsOf(r) ==
    (IF call[r] # None THEN {The(call[r]).contents, The(call[r]).model_name} ELSE {})
    \cup (IF enhanced[r] # None THEN {The(enhanced[r])} ELSE {})
    \cup (IF ret[r] # None THEN {The(ret[r]).v} ELSE {})
    \cup (IF resp[r] # None THEN {The(resp[r]).body.response} ELSE {})
    \cup (IF resp[r] # None /\ The(resp[r]).body.model # None
          THEN {The(The(resp[r]).body.model)} ELSE {})

\* C10: with several requests in flight and their provider threads ending in any
\* order, the prompt and the response of a request carry its own prompt, memory,
\* context and provider result and nothing of another request's; and a request that
\* waits for its provider can always go on, whatever state the others are in.
C10_RequestsIndependent ==
    \A r \in Requests :
        /\ \A text \in TextsOf(r) : Atoms(text) \cap OtherTags(r) = {}
        /\ call[r] # None =>
               /\ Tag(r) \in Atoms(The(call[r]).contents)
               /\ path[r] = "enriched" =>
                      /\ Contains(The(call[r]).contents, <<"User: ", "u", Tag(r)>>)
                      /\ Contains(The(call[r]).contents, <<"Current Page: ", "https://", Tag(r)>>)
                      /\ The(call[r]).model_name = <<"gemini-", Tag(r)>>
        /\ (pc[r] = "done" /\ outcome[r] # None) =>
               /\ Tag(r) \in Atoms(The(outcome[r]).v \o The(outcome[r]).msg)
                      => Tag(r) \in Atoms(The(resp[r]).body.response)
               /\ The(outcome[r]).ok => The(resp[r]).body.response = Strip(The(outcome[r]).v)
        /\ pc[r] = "awaiting" => ENABLED ThreadEnds(r, Returned(<<>>))
        /\ pc[r] = "ready" => ENABLED ResumeOf(r)

C10_Witness ==
    \E r, s \in Requests :
        /\ r < s
        /\ pc[r] = "awaiting"
        /\ pc[s] = "done"
        /\ path[r] = "enriched" /\ path[s] = "enriched"
        /\ outcome[s] # None
        /\ Tag(s) \in Atoms(The(resp[s]).body.response)

\* C11: with a pageContent longer than 500 atoms and neither selectedText nor snippet,
\* the context block of the composed prompt has one excerpt line, the first 500 atoms
\* of pageContent, and the prompt has no atom of pageContent past the 500th.
C11_PageContentTruncated ==
    \A r \in Requests :
        (/\ Composed(r)
         /\ Len(Field(r, "pageContent")) > 500
         /\ Field(r, "selectedText") = <<>>
         /\ Field(r, "snippet") = <<>>) =>
            LET text == The(enhanced[r])
                page == Field(r, "pageContent")
                block == FindFrom(text, <<"\n", "=== Page Context ===">>, 1)
                ending == FindFrom(text, <<"=== End Context ===", "\n">>, 1)
                at == FindFrom(text, <<"Page Content: ">>, 1)
            IN /\ ExcerptLines(text) = << <<"Page Content: ">> \o First500(page) >>
               /\ block # 0 /\ block < at /\ at + 500 < ending
               /\ text[at + 501] = "\n"
               /\ \A i \in 501..Len(page) : page[i] \notin Atoms(text)
               /\ ~Contains(text, [i \in 1..501 |-> page[i]])

C11_Witness ==
    \E r \in Requests :
        /\ Composed(r)
        /\ Len(Field(r, "pageContent")) = 501
        /\ Field(r, "selectedText") = <<>>
        /\ Field(r, "snippet") = <<>>
        /\ req[r].context # None
        /\ Get(The(req[r].context), "snippet") = Some(<<>>)
        /\ Contains(The(enhanced[r]), <<"Page Content: ">> \o First500(Field(r, "pageContent")))

\* C12: get_available_models returns the empty list when no credential is configured
\* and, when one is, a non-empty list whose every entry has an id, a name and a
\* provider; whether the SDK is there makes no difference and no provider call is made.
C12_ModelsGatedOnCredential ==
    \A r \in Requests :
        (kind[r] = "models" /\ pc[r] = "done") =>
            LET body == The(resp[r]).body
            IN /\ The(resp[r]).status = 200
               /\ GEMINI_API_KEY \in {None, Some(<<>>)} <=> body.models = <<>>
               /\ \A i \in 1..Len(body.models) :
                      /\ DOMAIN body.models[i] = {"id", "name", "provider"}
                      /\ body.models[i].id # <<>>
                      /\ body.models[i].name # <<>>
                      /\ body.models[i].provider # <<>>
               /\ body.count = Len(body.models)
               /\ call[r] = None /\ calls[r] = 0 /\ outcome[r] = None /\ ret[r] = None

C12_Witness ==
    \E r \in Requests :
        /\ kind[r] = "models" /\ pc[r] = "done"
        /\ ~GEMINI_AVAILABLE
        /\ GEMINI_API_KEY = Some(<<"k">>)
        /\ The(resp[r]).body.count = 2
        /\ The(resp[r]).body.models[2].id = <<"gemini-1.5-flash">>

\* C13: a call of generate invokes the provider at most once: once when the SDK and
\* the credential are both there, never when either is missing; and a call whose
\* provider attempt failed has ended with the error text after that one attempt.
C13_SingleAttempt ==
    \A r \in Requests :
        GenerateCalled(r) =>
            /\ calls[r] <= 1
            /\ calls[r] = 1 <=> (GEMINI_AVAILABLE /\ GEMINI_API_KEY \notin {None, Some(<<>>)})
            /\ calls[r] = 0 <=> call[r] = None
            /\ calls[r] = 0 => (pc[r] = "done" /\ outcome[r] = None)
            /\ (outcome[r] # None /\ ~The(outcome[r]).ok) =>
                   /\ calls[r] = 1
                   /\ pc[r] \in {"ready", "done"}
                   /\ pc[r] = "ready" => ENABLED ResumeOf(r)
                   /\ pc[r] = "done" =>
                          The(ret[r]).v =
                              <<"Gemini", " ", "API", " ", "error:", " ">> \o The(outcome[r]).msg

\* C13, as steps: no step invokes the provider for a request whose provider thread has
\* ended, and no step invokes it twice.
C13_NoSecondInvocation ==
    [][\A r \in Requests :
           /\ calls'[r] \in {calls[r], calls[r] + 1}
           /\ (calls[r] >= 1 \/ outcome[r] # None) => calls'[r] = calls[r]]_vars

C13_Witness ==
    \E r \in Requests :
        /\ kind[r] = "generate" /\ pc[r] = "done"
        /\ outcome[r] # None /\ ~The(outcome[r]).ok
        /\ calls[r] = 1
        /\ The(ret[r]).v = <<"Gemini", " ", "API", " ", "error:", " ", "429", " ", "quota", " ", "#1">>

====
